---- MODULE Spec2Model ----
(***************************************************************************)
(* A model of basic_webserver.py: WSGIServer, a single-threaded WSGI       *)
(* server.  serve_forever accepts one connection at a time and runs        *)
(* handle_one_request on it: recv + decode, parse_request, get_environ,    *)
(* the application call (which may call start_response) and                *)
(* finish_response (serialize, sendall, and close in a finally block).     *)
(*                                                                         *)
(* Text (Python str) is a sequence of one-character strings, bytes are a   *)
(* sequence of integers 0..255.  An optional value (an attribute or local  *)
(* that may not be bound yet) is a sequence of length 0 or 1.              *)
(***************************************************************************)
EXTENDS Integers, Sequences, FiniteSets, TLC

(***************************************************************************)
(* Bounds of the model.                                                    *)
(***************************************************************************)
\* number of connections serve_forever accepts in a behaviour
MaxCycles == 2
\* number of start_response calls the application makes in one cycle
MaxSRCalls == 2
\* number of items of the iterable the application returns
MaxChunks == 2
\* length of the raw request texts parse_request is applied to in SpecParse
MaxTextLen == 7

(***************************************************************************)
(* Characters, bytes, and the UTF-8 codec restricted to the byte values    *)
(* 9, 10, 13, 32..95, 97..126 (ASCII) and 128..255 (never valid alone).    *)
(***************************************************************************)
Printable ==
  << " ", "!", "\"", "#", "$", "%", "&", "'", "(", ")", "*", "+", ",", "-", ".", "/",
     "0", "1", "2", "3", "4", "5", "6", "7", "8", "9", ":", ";", "<", "=", ">", "?",
     "@", "A", "B", "C", "D", "E", "F", "G", "H", "I", "J", "K", "L", "M", "N", "O",
     "P", "Q", "R", "S", "T", "U", "V", "W", "X", "Y", "Z", "[", "\\", "]", "^", "_",
     "?", "a", "b", "c", "d", "e", "f", "g", "h", "i", "j", "k", "l", "m", "n", "o",
     "p", "q", "r", "s", "t", "u", "v", "w", "x", "y", "z", "{", "|", "}", "~" >>

AsciiCodes == {9, 10, 13} \cup (32..95) \cup (97..126)

Chr(b) ==
  IF b = 9 THEN "\t"
  ELSE IF b = 10 THEN "\n"
  ELSE IF b = 13 THEN "\r"
  ELSE Printable[b - 31]

OrdTable == [c \in {Chr(b) : b \in AsciiCodes} |-> CHOOSE b \in AsciiCodes : Chr(b) = c]

Ord(c) == OrdTable[c]

\* bytes.decode('utf-8'): defined when every byte is ASCII; a byte >= 128
\* that starts no valid sequence raises UnicodeDecodeError
CanDecode(bs) == \A i \in 1..Len(bs) : bs[i] \in AsciiCodes

Decode(bs) == [i \in 1..Len(bs) |-> Chr(bs[i])]

\* str.encode(): UTF-8 of ASCII text
Encode(text) == [i \in 1..Len(text) |-> Ord(text[i])]

RECURSIVE Concat(_)
\* ''.join(parts)
Concat(parts) ==
  IF parts = << >> THEN << >> ELSE Head(parts) \o Concat(Tail(parts))

(***************************************************************************)
(* str.splitlines, str.rstrip and str.split as parse_request uses them.    *)
(***************************************************************************)
LineBreaks == {"\n", "\r"}

Whitespace == {" ", "\t", "\n", "\r"}

\* the characters before the first line boundary: text.splitlines()[0] of a
\* non-empty text
FirstLineOf(text) ==
  LET breaks == {i \in 1..Len(text) : text[i] \in LineBreaks}
  IN  IF breaks = {} THEN text
      ELSE SubSeq(text, 1, (CHOOSE i \in breaks : \A j \in breaks : i <= j) - 1)

\* text.splitlines(): only its emptiness and its first element are used
HasLines(text) == text # << >>

RECURSIVE RStrip(_, _)
\* s.rstrip(chars)
RStrip(s, chars) ==
  IF s # << >> /\ s[Len(s)] \in chars
  THEN RStrip(SubSeq(s, 1, Len(s) - 1), chars)
  ELSE s

\* the first position of s at or after i whose character is whitespace
\* (ws = TRUE) or is not (ws = FALSE); Len(s) + 1 when there is none
Scan(s, i, ws) ==
  LET hits == {j \in i..Len(s) : (s[j] \in Whitespace) = ws}
  IN  IF hits = {} THEN Len(s) + 1
      ELSE CHOOSE j \in hits : \A k \in hits : j <= k

RECURSIVE SplitFrom(_, _)
\* s.split() from position i on: skip whitespace, collect one token up to
\* the next whitespace, go on behind it
SplitFrom(s, i) ==
  LET start == Scan(s, i, FALSE)
  IN  IF start > Len(s) THEN << >>
      ELSE LET stop == Scan(s, start, TRUE)
           IN  <<SubSeq(s, start, stop - 1)>> \o SplitFrom(s, stop)

Split(s) == SplitFrom(s, 1)

\* parse_request splitting the whole text instead of its first line
RequestLineTokens_WholeText(text) == Split(text)

\* the token list parse_request unpacks
RequestLineTokens(text) == Split(RStrip(FirstLineOf(text), {"\r", "\n"}))

(***************************************************************************)
(* str(int) and strftime('%a, %d %b %Y %H:%M:%S GMT') of a UTC instant     *)
(* given in seconds since 1970-01-01.                                      *)
(***************************************************************************)
Digit(d) == Printable[d + 17]

RECURSIVE IntToStr(_)
\* str(n) for n >= 0
IntToStr(n) ==
  IF n < 10 THEN <<Digit(n)>> ELSE IntToStr(n \div 10) \o <<Digit(n % 10)>>

\* %d, %H, %M, %S: two digits, zero padded
Pad2(n) == <<Digit(n \div 10), Digit(n % 10)>>

WeekdayNames ==
  << <<"S","u","n">>, <<"M","o","n">>, <<"T","u","e">>, <<"W","e","d">>,
     <<"T","h","u">>, <<"F","r","i">>, <<"S","a","t">> >>

MonthNames ==
  << <<"J","a","n">>, <<"F","e","b">>, <<"M","a","r">>, <<"A","p","r">>,
     <<"M","a","y">>, <<"J","u","n">>, <<"J","u","l">>, <<"A","u","g">>,
     <<"S","e","p">>, <<"O","c","t">>, <<"N","o","v">>, <<"D","e","c">> >>

\* the proleptic Gregorian date of day number `days` (0 = 1970-01-01)
CivilFromDays(days) ==
  LET z    == days + 719468
      era  == z \div 146097
      doe  == z - era * 146097
      yoe  == (doe - doe \div 1460 + doe \div 36524 - doe \div 146096) \div 365
      doy  == doe - (365 * yoe + yoe \div 4 - yoe \div 100)
      mp   == (5 * doy + 2) \div 153
      d    == doy - (153 * mp + 2) \div 5 + 1
      m    == IF mp < 10 THEN mp + 3 ELSE mp - 9
      y    == yoe + era * 400 + (IF m <= 2 THEN 1 ELSE 0)
  IN  [year |-> y, month |-> m, day |-> d]

\* datetime.utcnow().strftime('%a, %d %b %Y %H:%M:%S GMT') at instant t
Strftime(t) ==
  LET days == t \div 86400
      secs == t % 86400
      date == CivilFromDays(days)
      wday == (days + 4) % 7
  IN  WeekdayNames[wday + 1] \o <<",", " ">> \o Pad2(date.day) \o <<" ">>
      \o MonthNames[date.month] \o <<" ">> \o IntToStr(date.year) \o <<" ">>
      \o Pad2(secs \div 3600) \o <<":">> \o Pad2((secs % 3600) \div 60)
      \o <<":">> \o Pad2(secs % 60) \o <<" ", "G", "M", "T">>

(***************************************************************************)
(* The environment of the server: the server identities it may be started  *)
(* with, the bytes peers send, what the application passes to              *)
(* start_response and returns, and the instants utcnow() may return.       *)
(***************************************************************************)
ServerIdentities ==
  { [name |-> <<"l", "o", "c", "a", "l", "h", "o", "s", "t">>, port |-> 8888],
    [name |-> <<"h">>, port |-> 80] }

\* b"GET /hello HTTP/1.1\r\nHost: x\r\n\r\n"
ReqHello ==
  Encode(<<"G", "E", "T", " ", "/", "h", "e", "l", "l", "o", " ", "H", "T", "T", "P",
           "/", "1", ".", "1", "\r", "\n", "H", "o", "s", "t", ":", " ", "x", "\r",
           "\n", "\r", "\n">>)

\* b"POST /a HTTP/1.0\n"
ReqPost ==
  Encode(<<"P", "O", "S", "T", " ", "/", "a", " ", "H", "T", "T", "P", "/", "1", ".",
           "0", "\n">>)

\* b"BADLINE"
ReqBadLine == Encode(<<"B", "A", "D", "L", "I", "N", "E">>)

\* b"GET / HTTP/1.1 x\r\n": four tokens
ReqFourTokens ==
  Encode(<<"G", "E", "T", " ", "/", " ", "H", "T", "T", "P", "/", "1", ".", "1", " ",
           "x", "\r", "\n">>)

\* b"": the peer closed without sending
ReqEmpty == << >>

\* b"\xff GET": not UTF-8
ReqNotUtf8 == <<255, 32, 71, 69, 84>>

RequestInputs == {ReqHello, ReqPost, ReqBadLine, ReqFourTokens, ReqEmpty, ReqNotUtf8}

ContentTypeHeader ==
  << <<"C", "o", "n", "t", "e", "n", "t", "-", "T", "y", "p", "e">>,
     <<"t", "e", "x", "t", "/", "p", "l", "a", "i", "n">> >>

\* (status, response_headers) argument pairs of start_response
SRArgs ==
  { [status |-> <<"2", "0", "0", " ", "O", "K">>,
     headers |-> <<ContentTypeHeader>>],
    [status |-> <<"4", "0", "4", " ", "N", "o", "t", " ", "F", "o", "u", "n", "d">>,
     headers |-> << >>],
    [status |-> <<"2", "0", "0", " ", "O", "K">>,
     headers |-> << <<<<"D", "a", "t", "e">>, <<"n", "o", "w">>>>,
                    <<<<"S", "e", "r", "v", "e", "r">>, <<"m", "i", "n", "e">>>>,
                    ContentTypeHeader >>],
    \* a header tuple with one element: a malformed header
    [status |-> <<"5", "0", "0", " ", "O", "o", "p", "s">>,
     headers |-> <<ContentTypeHeader, << <<"X", "-", "B", "a", "d">> >> >>] }

\* Tue, 01 Jan 2019 00:00:00 and Thu, 29 Feb 2024 23:59:59, in seconds
Instants == {1546300800, 1709251199}

\* the items an application's iterable yields: b"hi"; b"!" yielded by a
\* generator that first calls start_response; bytes that are not UTF-8;
\* an exception raised by the iterator
GoodItems ==
  { [kind |-> "bytes", data |-> <<104, 105>>],
    [kind |-> "lazy_sr", data |-> <<33>>] }

BadItems ==
  { [kind |-> "bytes", data |-> <<104, 255>>],
    [kind |-> "raise", data |-> << >>] }

RECURSIVE SeqsUpTo(_, _)
\* the sequences over S of length at most n
SeqsUpTo(S, n) ==
  IF n = 0 THEN { << >> }
  ELSE LET shorter == SeqsUpTo(S, n - 1)
       IN  shorter \cup { Append(q, e) : q \in shorter, e \in S }

\* what the application returns: an iterable of at most MaxChunks items, in
\* which nothing follows a faulting item, or a value that is not iterable
AppResults ==
  { [iterable |-> TRUE, items |-> q] : q \in SeqsUpTo(GoodItems, MaxChunks) }
  \cup { [iterable |-> TRUE, items |-> Append(q, e)] :
           q \in SeqsUpTo(GoodItems, MaxChunks - 1), e \in BadItems }
  \cup { [iterable |-> FALSE, items |-> << >>] }

(***************************************************************************)
(* State.                                                                  *)
(***************************************************************************)
VARIABLES
  server_name,        \* self.server_name
  server_port,        \* self.server_port
  headers_set,        \* self.headers_set: [] or [status, headers]
  client_connection,  \* self.client_connection: id of the accepted socket, 0 before
  request_data,       \* self.request_data (optional)
  request_method,     \* self.request_method (optional)
  path,               \* self.path (optional)
  request_version,    \* self.request_version (optional)
  pc,                 \* where serve_forever / handle_one_request stands
  fault,              \* the exception that is propagating, or "none"
  env,                \* handle_one_request: env (optional)
  result,             \* handle_one_request: result (optional)
  result_iter,        \* finish_response: index of the next item of result
  status,             \* finish_response: status
  response_headers,   \* finish_response: response_headers
  response,           \* finish_response: response
  cycle,              \* number of connections accepted so far
  open_conns,         \* accepted sockets on which close() was not called
  conn_in,            \* bytes the peer of client_connection sent
  sent,               \* arguments of the sendall calls on client_connection
  trace,              \* the calls made since client_connection was accepted
  sr_args,            \* arguments and clock of the start_response call that
                      \*   set headers_set (optional)
  fr_args,            \* sr_args as it was when finish_response read
                      \*   headers_set (optional)
  startup             \* the name and port __init__ resolved

server == <<server_name, server_port, headers_set, client_connection,
            request_data, request_method, path, request_version>>

locals == <<env, result, result_iter, status, response_headers, response, fr_args>>

world == <<cycle, open_conns, conn_in, sent>>

vars == <<server, locals, world, pc, fault, trace, sr_args, startup>>

Count(events, e) == Cardinality({i \in 1..Len(events) : events[i] = e})

(***************************************************************************)
(* Init: the state after WSGIServer.__init__ and set_app.                  *)
(***************************************************************************)
Init ==
  /\ \E id \in ServerIdentities :
       /\ server_name = id.name
       /\ server_port = id.port
       /\ startup = id
  /\ headers_set = << >>
  /\ client_connection = 0
  /\ request_data = << >>
  /\ request_method = << >>
  /\ path = << >>
  /\ request_version = << >>
  /\ pc = "accept"
  /\ fault = "none"
  /\ env = << >>
  /\ result = << >>
  /\ result_iter = 1
  /\ status = << >>
  /\ response_headers = << >>
  /\ response = << >>
  /\ cycle = 0
  /\ open_conns = {}
  /\ conn_in = << >>
  /\ sent = << >>
  /\ trace = << >>
  /\ sr_args = << >>
  /\ fr_args = << >>

\* serve_forever catching the exception and going on to the next accept
Propagate_Swallowed(exc) ==
  /\ fault' = fault
  /\ pc' = "accept"

\* an exception leaves handle_one_request and serve_forever: nothing on the
\* way catches it
Propagate(exc) ==
  /\ fault' = exc
  /\ pc' = "crashed"

\* accept() storing the port of the peer over the port of the server
Accept_OverwritesPort ==
  /\ pc = "accept"
  /\ cycle < MaxCycles
  /\ \E data \in RequestInputs : conn_in' = data
  /\ cycle' = cycle + 1
  /\ client_connection' = cycle + 1
  /\ server_port' = 49152 + cycle
  /\ open_conns' = open_conns \cup {cycle + 1}
  /\ sent' = << >>
  /\ trace' = <<"accept">>
  /\ env' = << >>
  /\ result' = << >>
  /\ result_iter' = 1
  /\ status' = << >>
  /\ response_headers' = << >>
  /\ response' = << >>
  /\ fr_args' = << >>
  /\ pc' = "recv"
  /\ UNCHANGED <<startup, server_name, headers_set, request_data,
                 request_method, path, request_version, fault, sr_args>>

(***************************************************************************)
(* serve_forever: listen_socket.accept(), then handle_one_request().       *)
(***************************************************************************)
Accept ==
  /\ pc = "accept"
  /\ cycle < MaxCycles
  /\ \E data \in RequestInputs : conn_in' = data
  /\ cycle' = cycle + 1
  /\ client_connection' = cycle + 1
  /\ open_conns' = open_conns \cup {cycle + 1}
  /\ sent' = << >>
  /\ trace' = <<"accept">>
  \* handle_one_request and finish_response start with fresh locals
  /\ env' = << >>
  /\ result' = << >>
  /\ result_iter' = 1
  /\ status' = << >>
  /\ response_headers' = << >>
  /\ response' = << >>
  /\ fr_args' = << >>
  /\ pc' = "recv"
  /\ UNCHANGED <<startup, server_name, server_port, headers_set, request_data,
                 request_method, path, request_version, fault, sr_args>>

\* the size handle_one_request passes to recv
RecvBufSize == 1024

\* a read that returns everything the peer sent, whatever the buffer size
RecvBytes_All(data, n) == data

\* socket.recv(n): at most n of the bytes the peer sent
RecvBytes(data, n) == SubSeq(data, 1, IF Len(data) < n THEN Len(data) ELSE n)

\* handle_one_request: recv(1024) and decode('utf-8')
Recv ==
  /\ pc = "recv"
  /\ trace' = Append(trace, "recv")
  /\ \/ \* recv raises (connection reset)
        /\ Propagate("OSError")
        /\ UNCHANGED request_data
     \/ LET data == RecvBytes(conn_in, RecvBufSize)
        IN  IF CanDecode(data)
            THEN /\ request_data' = <<Decode(data)>>
                 /\ pc' = "parse"
                 /\ UNCHANGED fault
            ELSE /\ Propagate("UnicodeDecodeError")
                 /\ UNCHANGED request_data
  /\ UNCHANGED <<startup, server_name, server_port, headers_set, client_connection,
                 request_method, path, request_version, locals, world, sr_args>>

\* parse_request padding or truncating the token list to three instead of
\* unpacking it
ParseRequest_Lenient ==
  /\ pc = "parse"
  /\ trace' = Append(trace, "parse_request")
  /\ LET text == request_data[1]
         tokens == RequestLineTokens(text)
         padded == [i \in 1..3 |-> IF i <= Len(tokens) THEN tokens[i] ELSE << >>]
     IN  IF ~HasLines(text)
         THEN /\ Propagate("IndexError")
              /\ UNCHANGED <<request_method, path, request_version>>
         ELSE /\ request_method' = <<padded[1]>>
              /\ path' = <<padded[2]>>
              /\ request_version' = <<padded[3]>>
              /\ pc' = "environ"
              /\ UNCHANGED fault
  /\ UNCHANGED <<startup, server_name, server_port, headers_set, client_connection,
                 request_data, locals, world, sr_args>>

\* handle_one_request: self.parse_request(request_data)
ParseRequest ==
  /\ pc = "parse"
  /\ trace' = Append(trace, "parse_request")
  /\ LET text == request_data[1]
         tokens == RequestLineTokens(text)
     IN  IF ~HasLines(text)
         THEN \* text.splitlines()[0] of an empty list
              /\ Propagate("IndexError")
              /\ UNCHANGED <<request_method, path, request_version>>
         ELSE IF Len(tokens) # 3
         THEN \* the tuple assignment unpacks before it assigns
              /\ Propagate("ValueError")
              /\ UNCHANGED <<request_method, path, request_version>>
         ELSE /\ request_method' = <<tokens[1]>>
              /\ path' = <<tokens[2]>>
              /\ request_version' = <<tokens[3]>>
              /\ pc' = "environ"
              /\ UNCHANGED fault
  /\ UNCHANGED <<startup, server_name, server_port, headers_set, client_connection,
                 request_data, locals, world, sr_args>>

\* get_environ taking PATH_INFO from the wrong attribute
Environ_PathFromVersion ==
  [ wsgi_version      |-> <<1, 0>>,
    wsgi_url_scheme   |-> <<"h", "t", "t", "p">>,
    wsgi_input        |-> request_data[1],
    wsgi_errors       |-> "sys.stderr",
    wsgi_multithread  |-> FALSE,
    wsgi_multiprocess |-> FALSE,
    wsgi_run_once     |-> FALSE,
    REQUEST_METHOD    |-> request_method[1],
    PATH_INFO         |-> request_version[1],
    SERVER_NAME       |-> server_name,
    SERVER_PORT       |-> IntToStr(server_port) ]

\* the dictionary get_environ returns
Environ ==
  [ wsgi_version      |-> <<1, 0>>,
    wsgi_url_scheme   |-> <<"h", "t", "t", "p">>,
    wsgi_input        |-> request_data[1],
    wsgi_errors       |-> "sys.stderr",
    wsgi_multithread  |-> FALSE,
    wsgi_multiprocess |-> FALSE,
    wsgi_run_once     |-> FALSE,
    REQUEST_METHOD    |-> request_method[1],
    PATH_INFO         |-> path[1],
    SERVER_NAME       |-> server_name,
    SERVER_PORT       |-> IntToStr(server_port) ]

\* handle_one_request: env = self.get_environ()
GetEnviron ==
  /\ pc = "environ"
  /\ trace' = Append(trace, "get_environ")
  /\ env' = <<Environ>>
  /\ pc' = "call"
  /\ UNCHANGED <<startup, server, result, result_iter, status, response_headers, response,
                 fr_args, world, fault, sr_args>>

\* handle_one_request calling the application a second time
CallApplication_Twice ==
  /\ pc = "call"
  /\ trace' = Append(trace, "application")
  /\ pc' = IF Count(trace, "application") = 0 THEN "call" ELSE "app"
  /\ UNCHANGED <<startup, server, locals, world, fault, sr_args>>

\* handle_one_request: self.application(env, self.start_response) is entered
CallApplication ==
  /\ pc = "call"
  /\ trace' = Append(trace, "application")
  /\ pc' = "app"
  /\ UNCHANGED <<startup, server, locals, world, fault, sr_args>>

(***************************************************************************)
(* start_response(status, response_headers), called by the application.    *)
(***************************************************************************)
\* current_date: utcnow().strftime(...) at instant t
CurrentDate(t) == Strftime(t)

\* server_headers: ('Date', f'${current_date}'), ('Server', 'WSGIServer 0.2')
ServerHeaders(t) ==
  << << <<"D", "a", "t", "e">>, <<"$">> \o CurrentDate(t) >>,
     << <<"S", "e", "r", "v", "e", "r">>,
        <<"W", "S", "G", "I", "S", "e", "r", "v", "e", "r", " ", "0", ".", "2">> >> >>

\* start_response putting the server headers before the application's
NewHeadersSet_ServerFirst(st, hdrs, t) == <<st, ServerHeaders(t) \o hdrs>>

\* the value start_response assigns to self.headers_set
NewHeadersSet(st, hdrs, t) == <<st, hdrs \o ServerHeaders(t)>>

\* start_response extending the list it was passed (response_headers +=
\* server_headers): the application's list has the server headers afterwards
StartResponse_ExtendsInPlace(a, t) ==
  /\ headers_set' = NewHeadersSet(a.status, a.headers, t)
  /\ sr_args' = <<[status |-> a.status, headers |-> a.headers \o ServerHeaders(t),
                   now |-> t]>>
  /\ trace' = Append(trace, "start_response")

\* the effect of one start_response call at instant t
StartResponse(a, t) ==
  /\ headers_set' = NewHeadersSet(a.status, a.headers, t)
  /\ sr_args' = <<[status |-> a.status, headers |-> a.headers, now |-> t]>>
  /\ trace' = Append(trace, "start_response")

(***************************************************************************)
(* The application, between its call and its return.                       *)
(***************************************************************************)
AppStartResponse ==
  /\ pc = "app"
  /\ Count(trace, "start_response") < MaxSRCalls
  /\ \E a \in SRArgs, t \in Instants : StartResponse(a, t)
  /\ UNCHANGED <<startup, server_name, server_port, client_connection, request_data,
                 request_method, path, request_version, locals, world, pc, fault>>

\* the application returns its iterable: result = self.application(...)
AppReturn ==
  /\ pc = "app"
  /\ \E r \in AppResults : result' = <<r>>
  /\ trace' = Append(trace, "return")
  /\ pc' = "finish"
  /\ UNCHANGED <<startup, server, env, result_iter, status, response_headers, response,
                 fr_args, world, fault, sr_args>>

\* the application raises
AppRaise ==
  /\ pc = "app"
  /\ trace' = Append(trace, "raise")
  /\ Propagate("ApplicationError")
  /\ UNCHANGED <<startup, server, locals, world, sr_args>>

(***************************************************************************)
(* finish_response(result).                                                *)
(***************************************************************************)
CRLF == <<"\r", "\n">>

\* f'HTTP/1.1 {status}\r\n'
StatusLine(st) == <<"H", "T", "T", "P", "/", "1", ".", "1", " ">> \o st \o CRLF

\* '{0}: {1}\r\n'.format(*header): needs two elements, ignores further ones
CanFormat(header) == Len(header) >= 2

HeaderLine(header) == header[1] \o <<":", " ">> \o header[2] \o CRLF

RECURSIVE FormatHeaders(_)
\* the text the header loop has appended when it ends or faults
FormatHeaders(hdrs) ==
  IF hdrs = << >> \/ ~CanFormat(Head(hdrs))
  THEN << >>
  ELSE HeaderLine(Head(hdrs)) \o FormatHeaders(Tail(hdrs))

\* finish_response without the blank line that ends the headers
ResponseHead_NoBlankLine(st, hdrs) == StatusLine(st) \o FormatHeaders(hdrs)

\* the response text when the body loop starts
ResponseHead(st, hdrs) == StatusLine(st) \o FormatHeaders(hdrs) \o CRLF

\* try: status, response_headers = self.headers_set; status line; header
\* loop; blank line
FinishHead ==
  /\ pc = "finish"
  /\ trace' = Append(trace, "read_headers_set")
  /\ IF Len(headers_set) # 2
     THEN \* not enough values to unpack
          /\ fault' = "ValueError"
          /\ pc' = "close"
          /\ UNCHANGED <<status, response_headers, response, fr_args>>
     ELSE /\ status' = headers_set[1]
          /\ response_headers' = headers_set[2]
          /\ fr_args' = sr_args
          /\ IF \A i \in 1..Len(headers_set[2]) : CanFormat(headers_set[2][i])
             THEN /\ response' = ResponseHead(headers_set[1], headers_set[2])
                  /\ pc' = "body"
                  /\ UNCHANGED fault
             ELSE /\ response' = StatusLine(headers_set[1])
                                   \o FormatHeaders(headers_set[2])
                  /\ fault' = "IndexError"
                  /\ pc' = "close"
  /\ UNCHANGED <<startup, server, env, result, result_iter, world, sr_args>>

\* for data in result: response += data.decode('utf-8'), one iteration
FinishBody ==
  /\ pc = "body"
  /\ LET r == result[1]
     IN  IF ~r.iterable
         THEN \* iter(result) raises
              /\ fault' = "TypeError"
              /\ pc' = "close"
              /\ UNCHANGED <<headers_set, sr_args, trace, response, result_iter>>
         ELSE IF result_iter > Len(r.items)
         THEN \* the iterable is exhausted
              /\ pc' = "send"
              /\ UNCHANGED <<headers_set, sr_args, trace, response, result_iter,
                             fault>>
         ELSE LET item == r.items[result_iter]
              IN  /\ result_iter' = result_iter + 1
                  /\ IF item.kind = "raise"
                     THEN /\ fault' = "ApplicationError"
                          /\ pc' = "close"
                          /\ UNCHANGED <<headers_set, sr_args, trace, response>>
                     ELSE /\ IF item.kind = "lazy_sr"
                             THEN \* the generator calls start_response, then yields
                                  \E a \in SRArgs, t \in Instants : StartResponse(a, t)
                             ELSE UNCHANGED <<headers_set, sr_args, trace>>
                          /\ IF CanDecode(item.data)
                             THEN /\ response' = response \o Decode(item.data)
                                  /\ UNCHANGED <<pc, fault>>
                             ELSE /\ fault' = "UnicodeDecodeError"
                                  /\ pc' = "close"
                                  /\ UNCHANGED response
  /\ UNCHANGED <<startup, server_name, server_port, client_connection, request_data,
                 request_method, path, request_version, env, result, status,
                 response_headers, fr_args, world>>

\* a serializer that formats the head from self.headers_set when it sends,
\* after the body has been consumed
FinishSend_ReadsLate ==
  /\ pc = "send"
  /\ trace' = Append(trace, "sendall")
  /\ LET body == SubSeq(response, Len(ResponseHead(status, response_headers)) + 1,
                        Len(response))
         late == IF \A i \in 1..Len(headers_set[2]) : CanFormat(headers_set[2][i])
                 THEN ResponseHead(headers_set[1], headers_set[2]) \o body
                 ELSE response
     IN  sent' = Append(sent, Encode(late))
  /\ pc' = "close"
  /\ \/ UNCHANGED fault
     \/ fault' = "OSError"
  /\ UNCHANGED <<startup, server, locals, cycle, open_conns, conn_in, sr_args>>

\* response_bytes = response.encode(); self.client_connection.sendall(...)
FinishSend ==
  /\ pc = "send"
  /\ trace' = Append(trace, "sendall")
  /\ sent' = Append(sent, Encode(response))
  /\ pc' = "close"
  /\ \/ UNCHANGED fault
     \/ \* sendall raises (connection reset)
        fault' = "OSError"
  /\ UNCHANGED <<startup, server, locals, cycle, open_conns, conn_in, sr_args>>

\* close() as the last statement of the try block instead of a finally block
FinishClose_OnlyOnSuccess ==
  /\ pc = "close"
  /\ IF fault = "none"
     THEN /\ trace' = Append(trace, "close")
          /\ open_conns' = open_conns \ {client_connection}
     ELSE UNCHANGED <<trace, open_conns>>
  /\ pc' = IF fault = "none" THEN "accept" ELSE "crashed"
  /\ UNCHANGED <<startup, server, locals, cycle, conn_in, sent, fault, sr_args>>

\* a finally block that sends what has been built so far before closing
FinishClose_FlushesPartial ==
  /\ pc = "close"
  /\ trace' = Append(trace, "close")
  /\ sent' = IF sent = << >> THEN <<Encode(response)>> ELSE sent
  /\ open_conns' = open_conns \ {client_connection}
  /\ pc' = IF fault = "none" THEN "accept" ELSE "crashed"
  /\ UNCHANGED <<startup, server, locals, cycle, conn_in, fault, sr_args>>

\* a finally block that returns, which discards the exception
FinishClose_ReturnsInFinally ==
  /\ pc = "close"
  /\ trace' = Append(trace, "close")
  /\ open_conns' = open_conns \ {client_connection}
  /\ pc' = "accept"
  /\ UNCHANGED <<startup, server, locals, cycle, conn_in, sent, fault, sr_args>>

\* finally: self.client_connection.close(); then the return to serve_forever,
\* or the exception goes on
FinishClose ==
  /\ pc = "close"
  /\ trace' = Append(trace, "close")
  /\ open_conns' = open_conns \ {client_connection}
  /\ pc' = IF fault = "none" THEN "accept" ELSE "crashed"
  /\ UNCHANGED <<startup, server, locals, cycle, conn_in, sent, fault, sr_args>>

Next ==
  \/ Accept
  \/ Recv
  \/ ParseRequest
  \/ GetEnviron
  \/ CallApplication
  \/ AppStartResponse
  \/ AppReturn
  \/ AppRaise
  \/ FinishHead
  \/ FinishBody
  \/ FinishSend
  \/ FinishClose

Spec == Init /\ [][Next]_vars

TypeOK ==
  /\ pc \in {"accept", "recv", "parse", "environ", "call", "app", "finish", "body",
             "send", "close", "crashed"}
  /\ cycle \in 0..MaxCycles
  /\ client_connection = cycle
  /\ open_conns \subseteq 1..cycle
  /\ Len(headers_set) \in {0, 2}
  /\ Len(sent) <= 1

(***************************************************************************)
(* SpecParse: parse_request applied to every raw text of at most           *)
(* MaxTextLen characters over ParseAlphabet, in the first cycle of a       *)
(* server, after recv and decode.                                          *)
(***************************************************************************)
ParseAlphabet == {"G", "/", " ", "\r", "\n"}

InitParse ==
  /\ server_name = <<"h">>
  /\ server_port = 80
  /\ startup = [name |-> <<"h">>, port |-> 80]
  /\ headers_set = << >>
  /\ client_connection = 1
  /\ \E text \in SeqsUpTo(ParseAlphabet, MaxTextLen) :
       /\ request_data = <<text>>
       /\ conn_in = Encode(text)
  /\ request_method = << >>
  /\ path = << >>
  /\ request_version = << >>
  /\ pc = "parse"
  /\ fault = "none"
  /\ env = << >>
  /\ result = << >>
  /\ result_iter = 1
  /\ status = << >>
  /\ response_headers = << >>
  /\ response = << >>
  /\ cycle = 1
  /\ open_conns = {1}
  /\ sent = << >>
  /\ trace = <<"accept", "recv">>
  /\ sr_args = << >>
  /\ fr_args = << >>

NextParse == ParseRequest

SpecParse == InitParse /\ [][NextParse]_vars

(***************************************************************************)
(* What the claims speak of.                                               *)
(***************************************************************************)
\* the request line of a text: the characters before its first line break
RequestLine(text) ==
  LET breaks == {i \in 1..Len(text) : text[i] \in {"\r", "\n"}}
      stop   == IF breaks = {} THEN Len(text) + 1
                ELSE CHOOSE i \in breaks : \A j \in breaks : i <= j
  IN  SubSeq(text, 1, stop - 1)

\* the positions at which a whitespace-separated token of line starts / ends
TokenStarts(line) ==
  {i \in 1..Len(line) :
     line[i] \notin {" ", "\t"} /\ (i = 1 \/ line[i - 1] \in {" ", "\t"})}

TokenEnds(line) ==
  {i \in 1..Len(line) :
     line[i] \notin {" ", "\t"} /\ (i = Len(line) \/ line[i + 1] \in {" ", "\t"})}

\* the k-th smallest element of a set of numbers
Kth(S, k) == CHOOSE x \in S : Cardinality({y \in S : y < x}) = k - 1

\* the k-th token of line
Token(line, k) == SubSeq(line, Kth(TokenStarts(line), k), Kth(TokenEnds(line), k))

TokenCount(line) == Cardinality(TokenStarts(line))

\* parse_request has run in the current cycle
Parsed == Count(trace, "parse_request") = 1

\* C5: parse_request applied to a raw text whose first line has exactly three
\* whitespace-separated tokens sets method, path and version to those tokens
\* in order and raises nothing; for every other token count it raises and
\* sets none of the three.
C5_ParseThreeTokens ==
  Parsed =>
    LET line == RequestLine(request_data[1])
    IN  IF TokenCount(line) = 3
        THEN /\ fault = "none"
             /\ pc = "environ"
             /\ request_method = <<Token(line, 1)>>
             /\ path = <<Token(line, 2)>>
             /\ request_version = <<Token(line, 3)>>
        ELSE /\ fault \in {"IndexError", "ValueError"}
             /\ pc = "crashed"
             /\ request_method = << >>
             /\ path = << >>
             /\ request_version = << >>

\* a three-token line with surrounding whitespace was parsed
C5_Witness_Three ==
  /\ Parsed
  /\ fault = "none"
  /\ TokenCount(RequestLine(request_data[1])) = 3
  /\ Len(request_method[1]) = 2
  /\ request_method # path

\* a four-token line was rejected
C5_Witness_Four ==
  /\ Parsed
  /\ TokenCount(RequestLine(request_data[1])) = 4
  /\ fault = "ValueError"

(***************************************************************************)
(* The connection and the end of a cycle.                                  *)
(***************************************************************************)
\* the cycle of client_connection is over: handle_one_request has returned
\* to serve_forever, or an exception has left it
CycleEnded == cycle > 0 /\ pc \in {"accept", "crashed"}

\* the call made last in the current cycle
LastCall == IF trace = << >> THEN "none" ELSE trace[Len(trace)]

\* finish_response was called in the current cycle
ReachedFinish == Count(trace, "return") = 1

\* C1: in every cycle that reaches finish_response, close() is called on
\* the accepted connection exactly once by the end of the cycle (and never
\* twice), whether serialization completes or faults.
C1_ClosedExactlyOnce ==
  /\ Count(trace, "close") <= 1
  /\ (CycleEnded /\ ReachedFinish) =>
       /\ Count(trace, "close") = 1
       /\ client_connection \notin open_conns

\* a body chunk failed to decode in the second cycle and the connection
\* was closed once
C1_Witness_DecodeFault ==
  /\ cycle = 2
  /\ pc = "crashed"
  /\ ReachedFinish
  /\ fault = "UnicodeDecodeError"
  /\ Count(trace, "close") = 1

\* serialization found no Response State and the connection was closed once
C1_Witness_MissingState ==
  /\ pc = "crashed"
  /\ ReachedFinish
  /\ fault = "ValueError"
  /\ Count(trace, "close") = 1

\* C2 (as claimed): whenever a cycle ends with a fault, whatever the stage
\* that raised it, the connection accepted for that cycle has been closed.
C2_ClosedOnEveryFault ==
  (cycle > 0 /\ pc = "crashed") => client_connection \notin open_conns

\* C3 (as claimed): a cycle in which the application returns without any
\* start_response call ends with a fault and with nothing sent.
C3_NoStartResponseFails ==
  (CycleEnded /\ ReachedFinish /\ Count(trace, "start_response") = 0) =>
    /\ fault # "none"
    /\ sent = << >>

\* C4: at most one accepted connection is open at any time, it is the
\* current one, and whenever serve_forever is about to accept, the previous
\* cycle has run to its end and its connection has been closed.
C4_OneConnectionAtATime ==
  /\ Cardinality(open_conns) <= 1
  /\ open_conns \subseteq {client_connection}
  /\ pc = "accept" => open_conns = {}
  /\ (pc = "accept" /\ cycle > 0) =>
       /\ fault = "none"
       /\ Count(trace, "sendall") = 1
       /\ LastCall = "close"

\* the second connection is open and being served; the first one is closed
C4_Witness_SecondCycle ==
  /\ cycle = 2
  /\ pc = "body"
  /\ open_conns = {2}

(***************************************************************************)
(* A failed parse, and the environment.                                    *)
(***************************************************************************)
\* parse_request ran in this cycle on a text whose request line does not
\* have three tokens
ParseFailed == Parsed /\ TokenCount(RequestLine(request_data[1])) # 3

\* C6: whenever parsing of the request line fails in a cycle, then in that
\* cycle no environment is built, the application is not invoked,
\* start_response is not called and nothing is sent on the connection.
C6_ParseFailureStopsCycle ==
  ParseFailed =>
    /\ pc = "crashed"
    /\ env = << >>
    /\ Count(trace, "get_environ") = 0
    /\ Count(trace, "application") = 0
    /\ Count(trace, "start_response") = 0
    /\ Count(trace, "sendall") = 0
    /\ sent = << >>

\* the second cycle failed to parse a four-token line, after a first cycle
\* that left its Response State behind
C6_Witness_SecondCycle ==
  /\ cycle = 2
  /\ ParseFailed
  /\ fault = "ValueError"
  /\ TokenCount(RequestLine(request_data[1])) = 4
  /\ headers_set # << >>

DecimalDigits == <<"0", "1", "2", "3", "4", "5", "6", "7", "8", "9">>

IsDecimal(text) ==
  /\ text # << >>
  /\ \A i \in 1..Len(text) : \E d \in 1..10 : DecimalDigits[d] = text[i]

RECURSIVE DecimalValue(_)
\* the number a string of decimal digits denotes
DecimalValue(text) ==
  IF text = << >> THEN 0
  ELSE 10 * DecimalValue(SubSeq(text, 1, Len(text) - 1))
       + ((CHOOSE d \in 1..10 : DecimalDigits[d] = text[Len(text)]) - 1)

\* the text of the bytes read from the connection of the current cycle
RawTextOfCycle == Decode(RecvBytes(conn_in, RecvBufSize))

\* C9: in every cycle in which the application is invoked, the environment
\* passed to it has REQUEST_METHOD and PATH_INFO equal to the first and
\* second token of the request line read in that cycle, SERVER_NAME and
\* SERVER_PORT (in decimal) equal to the identity fixed at startup, and an
\* input stream over the raw text of that cycle.  (The environment is
\* looked at when it is about to be passed; nothing assigns env later in the
\* cycle.)
C9_EnvironOfThisCycle ==
  /\ Count(trace, "application") >= 1 => env # << >>
  /\ (pc = "call" \/ LastCall = "application") =>
       LET e == env[1]
           line == RequestLine(RawTextOfCycle)
       IN  /\ e.REQUEST_METHOD = Token(line, 1)
           /\ e.PATH_INFO = Token(line, 2)
           /\ e.SERVER_NAME = startup.name
           /\ IsDecimal(e.SERVER_PORT)
           /\ DecimalValue(e.SERVER_PORT) = startup.port
           /\ e.wsgi_input = RawTextOfCycle

\* the application runs in a second cycle, on the request POST /a, in a
\* server bound to port 8888
C9_Witness_SecondCycle ==
  /\ cycle = 2
  /\ LastCall = "application"
  /\ env # << >>
  /\ env[1].PATH_INFO = <<"/", "a">>
  /\ startup.port = 8888
  /\ sr_args # << >>

(***************************************************************************)
(* The response on the wire.                                               *)
(***************************************************************************)
\* the positions at which text has a CR LF pair
CrlfAt(text) ==
  {i \in 1..(Len(text) - 1) : text[i] = "\r" /\ text[i + 1] = "\n"}

HasHead(text) == \E i \in CrlfAt(text) : i + 2 \in CrlfAt(text)

\* the header lines of a response text: the lines between the status line
\* and the blank line, without their CR LF
WireHeaderLines(text) ==
  LET crlf  == CrlfAt(text)
      ends  == {i \in crlf : i + 2 \in crlf}
      last  == CHOOSE i \in ends : \A j \in ends : i <= j
      stops == {i \in crlf : i <= last}
      n     == Cardinality(stops)
      order == [k \in 1..n |-> Kth(stops, k)]
  IN  [k \in 1..(n - 1) |-> SubSeq(text, order[k] + 2, order[k + 1] - 1)]

HasPrefix(text, prefix) ==
  /\ Len(text) >= Len(prefix)
  /\ SubSeq(text, 1, Len(prefix)) = prefix

\* C7: the header list start_response stores is the application's list, in
\* its order, followed by exactly two headers named Date and Server, and
\* the header lines of every response sent are the 'name: value' lines of
\* the application's headers followed by a Date line and a Server line;
\* application headers named Date or Server are kept.  (The bytes sent are
\* looked at in the state that follows the sendall call; nothing changes
\* them later in the cycle.)
C7_HeaderOrder ==
  /\ headers_set # << >> =>
       /\ sr_args # << >>
       /\ LET app == sr_args[1].headers
              hs  == headers_set[2]
          IN  /\ Len(hs) = Len(app) + 2
              /\ SubSeq(hs, 1, Len(app)) = app
              /\ Len(hs[Len(app) + 1]) = 2
              /\ hs[Len(app) + 1][1] = <<"D", "a", "t", "e">>
              /\ Len(hs[Len(app) + 2]) = 2
              /\ hs[Len(app) + 2][1] = <<"S", "e", "r", "v", "e", "r">>
  /\ (sent # << >> /\ LastCall = "sendall") =>
       /\ fr_args # << >>
       /\ HasHead(Decode(sent[1]))
       /\ LET app   == fr_args[1].headers
              lines == WireHeaderLines(Decode(sent[1]))
          IN  /\ Len(lines) = Len(app) + 2
              /\ \A k \in 1..Len(app) :
                   lines[k] = app[k][1] \o <<":", " ">> \o app[k][2]
              /\ HasPrefix(lines[Len(app) + 1], <<"D", "a", "t", "e", ":", " ">>)
              /\ HasPrefix(lines[Len(app) + 2],
                           <<"S", "e", "r", "v", "e", "r", ":", " ">>)

\* a response was sent for an application header list that has its own
\* Date and Server headers
C7_Witness_OwnDate ==
  /\ sent # << >>
  /\ Len(fr_args[1].headers) = 3
  /\ fr_args[1].headers[1][1] = <<"D", "a", "t", "e">>
  /\ Len(WireHeaderLines(Decode(sent[1]))) = 5

\* a response was sent for an empty application header list
C7_Witness_NoHeaders ==
  /\ sent # << >>
  /\ fr_args[1].headers = << >>
  /\ Len(WireHeaderLines(Decode(sent[1]))) = 2

RECURSIVE Flatten(_)
\* the concatenation of a sequence of sequences
Flatten(seqs) ==
  IF Len(seqs) = 0 THEN << >>
  ELSE Flatten(SubSeq(seqs, 1, Len(seqs) - 1)) \o seqs[Len(seqs)]

\* the cycle of client_connection ran to its end without a fault
CycleSucceeded == cycle > 0 /\ pc = "accept"

\* C8: in a successful cycle the server makes one sendall call, and its
\* bytes are the status line 'HTTP/1.1 ' + status + CR LF, one
\* 'name: value' + CR LF line per header the serializer read, in list
\* order, a blank CR LF line, then the bytes of every item of the
\* application's iterable in the order it yields them.
C8_WireFormat ==
  CycleSucceeded =>
    /\ Count(trace, "sendall") = 1
    /\ Len(sent) = 1
    /\ status = fr_args[1].status
    /\ LET head  == <<"H", "T", "T", "P", "/", "1", ".", "1", " ">> \o status
                    \o <<"\r", "\n">>
           lines == [k \in 1..Len(response_headers) |->
                       response_headers[k][1] \o <<":", " ">>
                       \o response_headers[k][2] \o <<"\r", "\n">>]
           items == result[1].items
           body  == [k \in 1..Len(items) |-> items[k].data]
       IN  sent[1] = Encode(head \o Flatten(lines) \o <<"\r", "\n">>)
                     \o Flatten(body)

\* a successful cycle with three application headers and two body chunks
C8_Witness_TwoChunks ==
  /\ CycleSucceeded
  /\ Len(response_headers) = 5
  /\ Len(result[1].items) = 2
  /\ result[1].items[1].data # result[1].items[2].data

\* C10 (as claimed): the value of the Date header start_response adds is
\* exactly the strftime text of the instant of the call, as in
\* 'Tue, 01 Jan 2019 00:00:00 GMT'.
C10_DateIsRfc1123 ==
  headers_set # << >> =>
    LET hs   == headers_set[2]
        date == hs[Len(hs) - 1][2]
        now  == sr_args[1].now
    IN  /\ date = Strftime(now)
        /\ now = 1546300800 =>
             date = <<"T", "u", "e", ",", " ", "0", "1", " ", "J", "a", "n", " ",
                      "2", "0", "1", "9", " ", "0", "0", ":", "0", "0", ":", "0",
                      "0", " ", "G", "M", "T">>

(***************************************************************************)
(* The server identity, faults, and the order of the stages.               *)
(***************************************************************************)
\* C11: the server name and port are the ones the constructor resolved,
\* after any operation of any cycle.
C11_IdentityUnchanged ==
  /\ server_name = startup.name
  /\ server_port = startup.port
  /\ startup \in ServerIdentities

\* a second cycle has run to its end, through every operation
C11_Witness_TwoCycles ==
  /\ cycle = 2
  /\ CycleSucceeded
  /\ Count(trace, "start_response") >= 1
  /\ server_port = 8888

\* C12: a fault is never cleared and never followed by an accept: once an
\* exception is propagating, the only step left is the close of the
\* serializer's finally block, after which the server has stopped; a fault
\* raised before finish_response stops the server at once, one raised in
\* it goes through that close.
C12_FaultPropagates ==
  [][ /\ fault # "none" =>
           /\ fault' = fault
           /\ cycle' = cycle
           /\ pc = "close"
           /\ pc' = "crashed"
      /\ (fault = "none" /\ fault' # "none") =>
           pc' = IF Count(trace', "read_headers_set") = 1 THEN "close" ELSE "crashed"
      /\ pc' = "accept" => fault' = "none" ]_vars

\* the serializer faulted in the first cycle, the connection was closed and
\* the server has stopped
C12_Witness_SerializerFault ==
  /\ cycle = 1
  /\ pc = "crashed"
  /\ fault = "IndexError"
  /\ LastCall = "close"
  /\ open_conns = {}

\* the stage a call of the cycle belongs to, 0 for calls that are not stages
StageRank(call) ==
  CASE call = "accept"        -> 1
    [] call = "recv"          -> 2
    [] call = "parse_request" -> 3
    [] call = "get_environ"   -> 4
    [] call = "application"   -> 5
    [] call = "sendall"       -> 6
    [] call = "close"         -> 7
    [] OTHER                  -> 0

\* C13: within a cycle the stages ACCEPTED, READ, PARSED, ENV_BUILT,
\* INVOKED, SERIALIZED, CLOSED occur in this order and none twice (up to
\* CLOSED every stage follows the one before it); a cycle without a fault
\* has all seven, so the application is called exactly once, after
\* get_environ and before sendall and close.
C13_StageOrder ==
  /\ \A i, j \in 1..Len(trace) :
       (i < j /\ StageRank(trace[i]) > 0 /\ StageRank(trace[j]) > 0) =>
         StageRank(trace[i]) < StageRank(trace[j])
  /\ \A j \in 1..Len(trace) :
       (StageRank(trace[j]) \in 2..6) =>
         \E i \in 1..(j - 1) : StageRank(trace[i]) = StageRank(trace[j]) - 1
  /\ CycleSucceeded =>
       /\ \A r \in 1..7 : \E i \in 1..Len(trace) : StageRank(trace[i]) = r
       /\ Count(trace, "application") = 1

\* a second cycle without a fault, in which start_response was called twice
C13_Witness_FullCycle ==
  /\ cycle = 2
  /\ CycleSucceeded
  /\ Count(trace, "start_response") = 2
  /\ Len(trace) >= 10

(***************************************************************************)
(* Repeated start_response calls.                                          *)
(***************************************************************************)
\* C14: when start_response is called more than once in a cycle, the
\* Response State is the one of the last call only, and the response sent
\* in that cycle has the status line and the application header lines of
\* the last call, followed by the two server header lines.
C14_LastCallWins ==
  /\ headers_set # << >> =>
       /\ headers_set[1] = sr_args[1].status
       /\ Len(headers_set[2]) = Len(sr_args[1].headers) + 2
  /\ (LastCall = "sendall" /\ Count(trace, "start_response") >= 2) =>
       LET last  == sr_args[1]
           text  == Decode(sent[1])
           lines == WireHeaderLines(text)
       IN  /\ HasPrefix(text, StatusLine(last.status))
           /\ Len(lines) = Len(last.headers) + 2
           /\ \A k \in 1..Len(last.headers) :
                lines[k] = last.headers[k][1] \o <<":", " ">> \o last.headers[k][2]

(***************************************************************************)
(* Requests longer than the read buffer.                                   *)
(***************************************************************************)
\* n bytes 'a'
Padding(n) == [i \in 1..n |-> 97]

\* b"GET /p HTTP/1.1\r\n" + b"a" * 1007 + b"ZZZ": the request line fits, the
\* last three bytes do not
LongPadded ==
  Encode(<<"G", "E", "T", " ", "/", "p", " ", "H", "T", "T", "P", "/", "1", ".", "1",
           "\r", "\n">>)
    \o Padding(RecvBufSize - 17) \o <<90, 90, 90>>

\* b"GET /" + b"a" * 1017 + b" HTTP/1.1\r\n": the request line is cut after
\* the H of the version
LongLine ==
  Encode(<<"G", "E", "T", " ", "/">>) \o Padding(RecvBufSize - 7)
    \o Encode(<<" ", "H", "T", "T", "P", "/", "1", ".", "1", "\r", "\n">>)

\* b"GET /p HTTP/1.1\r\n" + b"a" * 1006 + b"\xc3\xa9\r\n": the two bytes of
\* one character lie on both sides of the buffer's end
LongSplitChar ==
  Encode(<<"G", "E", "T", " ", "/", "p", " ", "H", "T", "T", "P", "/", "1", ".", "1",
           "\r", "\n">>)
    \o Padding(RecvBufSize - 18) \o <<195, 169, 13, 10>>

LongInputs == {LongPadded, LongLine, LongSplitChar}

\* the server has accepted its first connection, whose peer sent a request
\* longer than the buffer
InitLong ==
  /\ startup = [name |-> <<"h">>, port |-> 80]
  /\ server_name = startup.name
  /\ server_port = startup.port
  /\ headers_set = << >>
  /\ client_connection = 1
  /\ request_data = << >>
  /\ request_method = << >>
  /\ path = << >>
  /\ request_version = << >>
  /\ pc = "recv"
  /\ fault = "none"
  /\ env = << >>
  /\ result = << >>
  /\ result_iter = 1
  /\ status = << >>
  /\ response_headers = << >>
  /\ response = << >>
  /\ cycle = 1
  /\ open_conns = {1}
  /\ conn_in \in LongInputs
  /\ sent = << >>
  /\ trace = <<"accept">>
  /\ sr_args = << >>
  /\ fr_args = << >>

SpecLong == InitLong /\ [][Next]_vars

\* the bytes of the connection that fit the buffer
BufferPrefix ==
  SubSeq(conn_in, 1, IF Len(conn_in) < RecvBufSize THEN Len(conn_in) ELSE RecvBufSize)

\* C15: a cycle reads once, at most 1024 bytes, and goes on exactly as if
\* the peer had sent only the bytes that fit the buffer: the retained text
\* is the decoding of those bytes, the only faults of the read are a
\* failed recv and the decode fault of those bytes, the request fields are
\* the tokens of their first line, and the input stream of the environment
\* is that text.
C15_SingleBoundedRead ==
  /\ Count(trace, "recv") <= 1
  /\ (cycle > 0 /\ pc # "recv") => Count(trace, "recv") = 1
  /\ LastCall = "recv" =>
       /\ fault \in {"none", "OSError", "UnicodeDecodeError"}
       /\ fault = "UnicodeDecodeError" => ~CanDecode(BufferPrefix)
       /\ fault = "none" =>
            /\ CanDecode(BufferPrefix)
            /\ Len(request_data[1]) <= RecvBufSize
            /\ request_data[1] = Decode(BufferPrefix)
  /\ LastCall = "parse_request" =>
       /\ request_data[1] = Decode(BufferPrefix)
       /\ fault = "none" =>
            <<request_method[1], path[1], request_version[1]>>
              = Split(RStrip(FirstLineOf(Decode(BufferPrefix)), LineBreaks))
       /\ fault # "none" =>
            Len(Split(RStrip(FirstLineOf(Decode(BufferPrefix)), LineBreaks))) # 3
  /\ LastCall = "get_environ" =>
       /\ env[1].wsgi_input = Decode(BufferPrefix)
       /\ Len(env[1].wsgi_input) <= RecvBufSize

\* the application is about to be called on a request of 1027 bytes: its
\* input stream has 1024 characters
C15_Witness_Truncated ==
  /\ cycle = 1
  /\ Len(conn_in) > RecvBufSize
  /\ LastCall = "get_environ"
  /\ Len(env[1].wsgi_input) = RecvBufSize
  /\ request_version = << <<"H", "T", "T", "P", "/", "1", ".", "1">> >>

\* the request line was cut by the buffer and parsed as it was
C15_Witness_CutLine ==
  /\ cycle = 1
  /\ Len(conn_in) > RecvBufSize
  /\ LastCall = "parse_request"
  /\ fault = "none"
  /\ request_version = << <<"H">> >>

(***************************************************************************)
(* What reaches the connection.                                            *)
(***************************************************************************)
\* C16: a cycle makes at most one sendall call and nothing else writes to
\* the connection; the bytes of that call are the whole response (status
\* line, every header line, blank line, every item of the iterable); and
\* after a fault of header unpacking or formatting, of iteration or of
\* decoding, nothing has been written, also once the connection is closed.
C16_NoPartialResponse ==
  /\ Len(sent) <= 1
  /\ Len(sent) = Count(trace, "sendall")
  /\ LastCall = "sendall" =>
       LET items == result[1].items
           lines == [k \in 1..Len(response_headers) |->
                       response_headers[k][1] \o <<":", " ">>
                       \o response_headers[k][2] \o <<"\r", "\n">>]
           body  == [k \in 1..Len(items) |-> Decode(items[k].data)]
       IN  /\ result_iter = Len(items) + 1
           /\ Decode(sent[1]) =
                <<"H", "T", "T", "P", "/", "1", ".", "1", " ">> \o status
                  \o <<"\r", "\n">> \o Flatten(lines) \o <<"\r", "\n">>
                  \o Flatten(body)
  /\ fault \in {"ValueError", "IndexError", "TypeError", "ApplicationError",
                "UnicodeDecodeError"} => sent = << >>

\* the second item of the iterable could not be decoded: head and first
\* item were built, the connection is closed, nothing was written
C16_Witness_SecondChunkFault ==
  /\ ReachedFinish
  /\ fault = "UnicodeDecodeError"
  /\ result_iter = 3
  /\ Len(response) > Len(status)
  /\ LastCall = "close"
  /\ client_connection \notin open_conns
  /\ sent = << >>

(***************************************************************************)
(* start_response called while the body is being consumed.                 *)
(***************************************************************************)
\* start_response was called in this cycle after finish_response read
\* self.headers_set
LazyCall ==
  \E i, j \in 1..Len(trace) :
    i < j /\ trace[i] = "read_headers_set" /\ trace[j] = "start_response"

\* C17: every start_response call made after the application returned
\* comes after the serializer's read of the Response State; the response
\* sent has the status line and the application header lines of the state
\* read, whatever was set later; and the Response State on the server is
\* always the one of the latest call, through close and the next accept.
C17_StateReadBeforeBody ==
  /\ \A i \in 1..Len(trace) :
       (trace[i] = "start_response" /\ \E j \in 1..(i - 1) : trace[j] = "return")
         => \E k \in 1..(i - 1) : trace[k] = "read_headers_set"
  /\ sr_args # << >> =>
       headers_set = <<sr_args[1].status,
                       sr_args[1].headers \o ServerHeaders(sr_args[1].now)>>
  /\ (LastCall = "sendall" /\ LazyCall) =>
       LET read  == fr_args[1]
           text  == Decode(sent[1])
           lines == WireHeaderLines(text)
       IN  /\ status = read.status
           /\ HasPrefix(text, <<"H", "T", "T", "P", "/", "1", ".", "1", " ">>
                                \o read.status \o <<"\r", "\n">>)
           /\ Len(lines) = Len(read.headers) + 2
           /\ \A k \in 1..Len(read.headers) :
                lines[k] = read.headers[k][1] \o <<":", " ">> \o read.headers[k][2]
           /\ lines[Len(lines) - 1]
                = <<"D", "a", "t", "e", ":", " ", "$">> \o Strftime(read.now)

\* a cycle has ended in which the generator replaced '200 OK' by
\* '404 Not Found' during iteration: the response sent says 200 OK, the
\* server holds 404 Not Found as the next accept is due
C17_Witness_LateCallKept ==
  /\ CycleSucceeded
  /\ LazyCall
  /\ fr_args[1].status = <<"2", "0", "0", " ", "O", "K">>
  /\ sr_args[1].status = <<"4", "0", "4", " ", "N", "o", "t", " ", "F", "o", "u", "n", "d">>
  /\ headers_set[1] = sr_args[1].status
  /\ HasPrefix(Decode(sent[1]),
               <<"H", "T", "T", "P", "/", "1", ".", "1", " ", "2", "0", "0">>)

\* the second cycle has accepted its connection and the server still holds
\* the Response State of the first
C17_Witness_NextCycle ==
  /\ cycle = 2
  /\ LastCall = "accept"
  /\ headers_set # << >>
  /\ headers_set[1] = sr_args[1].status

(***************************************************************************)
(* The frame of start_response.                                            *)
(***************************************************************************)
\* C18: a step in which start_response is called leaves the bytes sent,
\* the open connections, the bytes of the peer, the retained request text
\* and the parsed request fields as they were, and the status and header
\* list of the call are afterwards as the application passed them; the
\* stored Response State is that status with a list made of the
\* application's headers and the two server headers.
C18_StartResponseFrame ==
  [][ trace' = Append(trace, "start_response") =>
        /\ UNCHANGED <<sent, open_conns, conn_in, client_connection, cycle>>
        /\ UNCHANGED <<request_data, request_method, path, request_version>>
        /\ UNCHANGED <<server_name, server_port, env, fault>>
        /\ [status |-> sr_args'[1].status, headers |-> sr_args'[1].headers]
             \in SRArgs
        /\ headers_set' = <<sr_args'[1].status,
                            sr_args'[1].headers \o ServerHeaders(sr_args'[1].now)>>
    ]_vars

\* start_response has just been called by the application of the second
\* cycle: the connection is open and nothing was sent
C18_Witness_CalledInSecondCycle ==
  /\ cycle = 2
  /\ LastCall = "start_response"
  /\ pc = "app"
  /\ open_conns = {2}
  /\ sent = << >>
  /\ request_data # << >>
  /\ Len(headers_set[2]) = Len(sr_args[1].headers) + 2

====
